---- MODULE Spec2Model ----
(***************************************************************************)
(* kkl::alg::CubatureKalmanFilterX                                         *)
(* (include/kkl/alg/cubature_kalman_filter..hpp): the filter object, its   *)
(* constructor, predict, correct and the four setters, over exact          *)
(* arithmetic.                                                             *)
(*                                                                         *)
(* Scalars.  The scalar type T is modelled by the field Q(sqrt2, sqrt3)    *)
(* plus one non-finite value: a scalar is <<a, b, c, d, q>>, standing for  *)
(* (a + b*sqrt2 + c*sqrt3 + d*sqrt6) / q with q > 0 and the five integers  *)
(* coprime.  q = 0 is NaN (any non-finite value); q = -1 marks a value the *)
(* model does not represent, a square root that lies outside the field or  *)
(* an integer above MaxCoeff, and a call that would need one is outside    *)
(* the model.  sqrt(n) for n = 1, 2, 3 is in the field, which is what the  *)
(* 2n cubature points of dimension n <= 3 need.                            *)
(*                                                                         *)
(* Matrices.  An Eigen dynamic matrix is [r, c, e]: r rows, c columns,     *)
(* e[i][j] its coefficients; a VectorXt is a matrix with c = 1.  Every     *)
(* Eigen operation whose operands do not fit is an eigen_assert failure:   *)
(* the value Bad.  A build with assertions aborts there; a build with      *)
(* NDEBUG goes on, and the model follows it where every coefficient read   *)
(* is inside its operand and treats the rest as undefined.                 *)
(***************************************************************************)
EXTENDS Integers, Sequences, FiniteSets, TLC

(***************************************************************************)
(* Scalars                                                                 *)
(***************************************************************************)
Abs(x) == IF x < 0 THEN -x ELSE x

RECURSIVE GCD(_, _)
GCD(a, b) == IF b = 0 THEN a ELSE GCD(b, a % b)

NaN == <<0, 0, 0, 0, 0>>

OutOfField == <<0, 0, 0, 0, -1>>

IsNum(x) == x[5] > 0

\* the largest integer of a represented scalar: the products and sums of two
\* scalars then stay inside TLC's 32-bit integers
MaxCoeff == 10000

Represented(x) == IF \E i \in 1..5 : Abs(x[i]) > MaxCoeff THEN OutOfField ELSE x

\* the canonical form of (a + b*sqrt2 + c*sqrt3 + d*sqrt6) / q, q # 0
Norm(a, b, c, d, q) ==
  LET g == GCD(GCD(GCD(GCD(Abs(q), Abs(a)), Abs(b)), Abs(c)), Abs(d))
      s == IF q < 0 THEN -1 ELSE 1
  IN  Represented(<<(s * a) \div g, (s * b) \div g, (s * c) \div g, (s * d) \div g,
                    (s * q) \div g>>)

\* the rational n/d
Rat(n, d) == Norm(n, 0, 0, 0, d)

Num(n) == <<n, 0, 0, 0, 1>>

Zero == Num(0)

One == Num(1)

IsRational(x) == IsNum(x) /\ x[2] = 0 /\ x[3] = 0 /\ x[4] = 0

\* what an operation on x and y is when one of them is no number
Poison(x, y) == IF x[5] < 0 \/ y[5] < 0 THEN OutOfField ELSE NaN

Add(x, y) ==
  IF ~IsNum(x) \/ ~IsNum(y) THEN Poison(x, y)
  ELSE Norm(x[1] * y[5] + y[1] * x[5], x[2] * y[5] + y[2] * x[5],
            x[3] * y[5] + y[3] * x[5], x[4] * y[5] + y[4] * x[5], x[5] * y[5])

Neg(x) == IF ~IsNum(x) THEN x ELSE <<-x[1], -x[2], -x[3], -x[4], x[5]>>

Sub(x, y) == Add(x, Neg(y))

Mul(x, y) ==
  IF ~IsNum(x) \/ ~IsNum(y) THEN Poison(x, y)
  ELSE Norm(x[1] * y[1] + 2 * x[2] * y[2] + 3 * x[3] * y[3] + 6 * x[4] * y[4],
            x[1] * y[2] + x[2] * y[1] + 3 * (x[3] * y[4] + x[4] * y[3]),
            x[1] * y[3] + x[3] * y[1] + 2 * (x[2] * y[4] + x[4] * y[2]),
            x[1] * y[4] + x[4] * y[1] + x[2] * y[3] + x[3] * y[2],
            x[5] * y[5])

\* 1/x for a rational x # 0
InvRational(x) == IF ~IsNum(x) THEN x ELSE Norm(x[5], 0, 0, 0, x[1])

\* 1/x for x # 0 in Q(sqrt2): the conjugate clears the radical
InvSqrt2(x) ==
  IF x[2] = 0 THEN InvRational(x)
  ELSE LET conj == <<x[1], -x[2], 0, 0, x[5]>>
       IN  Mul(conj, InvRational(Mul(x, conj)))

\* 1/x: the conjugate over sqrt3 takes x into Q(sqrt2); 1/0 is not finite
Inv(x) ==
  IF ~IsNum(x) THEN x
  ELSE IF x[1] = 0 /\ x[2] = 0 /\ x[3] = 0 /\ x[4] = 0 THEN NaN
  ELSE IF x[3] = 0 /\ x[4] = 0 THEN InvSqrt2(x)
  ELSE LET g    == GCD(GCD(GCD(Abs(x[1]), Abs(x[2])), Abs(x[3])), Abs(x[4]))
           x0   == <<x[1] \div g, x[2] \div g, x[3] \div g, x[4] \div g, 1>>
           conj == <<x0[1], x0[2], -x0[3], -x0[4], 1>>
       IN  Mul(Norm(x[5], 0, 0, 0, g), Mul(conj, InvSqrt2(Mul(x0, conj))))

Div(x, y) == Mul(x, Inv(y))

\* x <= 0, for the rationals the code compares; false for NaN as in IEEE 754
LeqZero(x) == IsNum(x) /\ x[1] <= 0

RECURSIVE Root(_, _, _)
\* the integer s in lo..hi with s*s = m, or -1, by bisection
Root(m, lo, hi) ==
  IF lo > hi THEN -1
  ELSE LET mid == (lo + hi) \div 2
       IN  IF mid * mid = m THEN mid
           ELSE IF mid * mid < m THEN Root(m, mid + 1, hi)
           ELSE Root(m, lo, mid - 1)

\* the integer s with s*s = m, or -1
ISqrt(m) == Root(m, 0, IF m < MaxCoeff THEN m ELSE MaxCoeff)

\* sqrt of a rational x >= 0: sqrt(a/q) = sqrt(a*q)/q, and a*q = s*s*k with
\* k in {1, 2, 3, 6} when the root is in the field
Sqrt(x) ==
  IF ~IsNum(x) THEN x
  ELSE IF ~IsRational(x) THEN OutOfField
  ELSE IF x[1] < 0 THEN NaN
  ELSE LET m == x[1] * x[5]
       IN  IF m % 6 = 0 /\ ISqrt(m \div 6) >= 0 /\ m # 0 THEN Norm(0, 0, 0, ISqrt(m \div 6), x[5])
           ELSE IF m % 3 = 0 /\ ISqrt(m \div 3) >= 0 /\ m # 0 THEN Norm(0, 0, ISqrt(m \div 3), 0, x[5])
           ELSE IF m % 2 = 0 /\ ISqrt(m \div 2) >= 0 /\ m # 0 THEN Norm(0, ISqrt(m \div 2), 0, 0, x[5])
           ELSE IF ISqrt(m) >= 0 THEN Norm(ISqrt(m), 0, 0, 0, x[5])
           ELSE OutOfField

(***************************************************************************)
(* Eigen dynamic matrices                                                  *)
(***************************************************************************)
\* the result of an Eigen operation whose eigen_assert fails
Bad == [r |-> -1, c |-> -1, e |-> <<>>]

IsBad(m) == m.r < 0

\* the r x c matrix with coefficient F[i, j] in row i, column j (from 1),
\* its rows and coefficients computed once, here
Mat(r, c, F) ==
  [r |-> r, c |-> c, e |-> <<>> \o [i \in 1..r |-> <<>> \o [j \in 1..c |-> F[i, j]]]]

\* MatrixXt::Zero(r, c), and setZero()
ZeroMat(r, c) == LET F == [i \in Nat, j \in Nat |-> Zero] IN Mat(r, c, F)

\* a VectorXt from its coefficients
Vec(s) == LET F == [i \in Nat, j \in Nat |-> s[i]] IN Mat(Len(s), 1, F)

Diag(s) == LET F == [i \in Nat, j \in Nat |-> IF i = j THEN s[i] ELSE Zero] IN Mat(Len(s), Len(s), F)

Scalar1(x) == Vec(<<x>>)

\* the coefficients of m
Coeffs(m) == {m.e[i][j] : i \in 1..m.r, j \in 1..m.c}

transpose(m) ==
  IF IsBad(m) THEN Bad ELSE LET F == [i \in Nat, j \in Nat |-> m.e[j][i]] IN Mat(m.c, m.r, F)

\* m.row(i - 1) and m.col(j - 1): Block's constructor asserts the index
row(m, i) ==
  IF IsBad(m) \/ i < 1 \/ i > m.r THEN Bad ELSE LET F == [a \in Nat, b \in Nat |-> m.e[i][b]] IN Mat(1, m.c, F)

col(m, j) ==
  IF IsBad(m) \/ j < 1 \/ j > m.c THEN Bad ELSE LET F == [a \in Nat, b \in Nat |-> m.e[a][j]] IN Mat(m.r, 1, F)

\* m.topLeftCorner(p, q) and m.bottomRightCorner(p, q), read
topLeftCorner(m, p, q) ==
  IF IsBad(m) \/ p > m.r \/ q > m.c THEN Bad ELSE LET F == [i \in Nat, j \in Nat |-> m.e[i][j]] IN Mat(p, q, F)

bottomRightCorner(m, p, q) ==
  IF IsBad(m) \/ p > m.r \/ q > m.c THEN Bad
  ELSE LET F == [i \in Nat, j \in Nat |-> m.e[m.r - p + i][m.c - q + j]] IN Mat(p, q, F)

\* The operand m of a coefficient-wise operation over r x c coefficients.
\* With the shapes equal it is m.  Otherwise eigen_assert fails; under NDEBUG
\* (nd) the loop runs over the r x c coefficients all the same and reads m at
\* their indices, which is inside m, and the same coefficient whichever way
\* the loop indexes, when both are single columns and m is the longer one,
\* or when one coefficient is read.
Fit(nd, m, r, c) ==
  IF IsBad(m) THEN Bad
  ELSE IF m.r = r /\ m.c = c THEN m
  ELSE IF nd /\ c = 1 /\ r >= 1 /\ r <= m.r /\ m.c >= 1 /\ (m.c = 1 \/ r = 1)
    THEN LET F == [i \in Nat, j \in Nat |-> m.e[i][j]] IN Mat(r, c, F)
  ELSE Bad

\* a + b and a - b (CwiseBinaryOp): a dynamic-sized left operand takes the
\* right operand's size
MAdd(nd, a, b) ==
  IF IsBad(a) \/ IsBad(b) \/ IsBad(Fit(nd, a, b.r, b.c)) THEN Bad
  ELSE LET fa == Fit(nd, a, b.r, b.c)
           F == [i \in Nat, j \in Nat |-> Add(fa.e[i][j], b.e[i][j])]
       IN  Mat(b.r, b.c, F)

MSub(nd, a, b) ==
  IF IsBad(a) \/ IsBad(b) \/ IsBad(Fit(nd, a, b.r, b.c)) THEN Bad
  ELSE LET fa == Fit(nd, a, b.r, b.c)
           F == [i \in Nat, j \in Nat |-> Sub(fa.e[i][j], b.e[i][j])]
       IN  Mat(b.r, b.c, F)

\* dst += src and dst -= src: dst keeps its size
AddAssign(nd, dst, src) ==
  IF IsBad(dst) \/ IsBad(src) \/ IsBad(Fit(nd, src, dst.r, dst.c)) THEN Bad
  ELSE LET fs == Fit(nd, src, dst.r, dst.c)
           F == [i \in Nat, j \in Nat |-> Add(dst.e[i][j], fs.e[i][j])]
       IN  Mat(dst.r, dst.c, F)

SubAssign(nd, dst, src) ==
  IF IsBad(dst) \/ IsBad(src) \/ IsBad(Fit(nd, src, dst.r, dst.c)) THEN Bad
  ELSE LET fs == Fit(nd, src, dst.r, dst.c)
           F == [i \in Nat, j \in Nat |-> Sub(dst.e[i][j], fs.e[i][j])]
       IN  Mat(dst.r, dst.c, F)

\* s * m for a scalar s
Scale(s, m) ==
  IF IsBad(m) THEN Bad ELSE LET F == [i \in Nat, j \in Nat |-> Mul(s, m.e[i][j])] IN Mat(m.r, m.c, F)

RECURSIVE Dot(_, _, _, _, _)
Dot(a, b, i, j, k) ==
  IF k = 0 THEN Zero ELSE Add(Dot(a, b, i, j, k - 1), Mul(a.e[i][k], b.e[k][j]))

\* a * b: the product asserts a.cols() == b.rows()
MMul(a, b) ==
  IF IsBad(a) \/ IsBad(b) \/ a.c # b.r THEN Bad
  ELSE LET F == [i \in Nat, j \in Nat |-> Dot(a, b, i, j, a.c)] IN Mat(a.r, b.c, F)

\* vector = expression, where Eigen transposes a row into a column vector
\* destination (and a column into a row destination) by their static types
AsColumn(v) == IF IsBad(v) THEN Bad ELSE IF v.r = 1 THEN transpose(v) ELSE v

\* m.row(i - 1) = v
SetRow(nd, m, i, v) ==
  IF IsBad(m) \/ IsBad(row(m, i)) \/ IsBad(Fit(nd, AsColumn(v), m.c, 1)) THEN Bad
  ELSE LET fv == Fit(nd, AsColumn(v), m.c, 1)
           F == [a \in Nat, b \in Nat |-> IF a = i THEN fv.e[b][1] ELSE m.e[a][b]]
       IN  Mat(m.r, m.c, F)

\* m.topLeftCorner(p, q) = v and m.bottomRightCorner(p, q) = v
SetTopLeft(nd, m, p, q, v) ==
  IF IsBad(m) \/ p > m.r \/ q > m.c \/ IsBad(Fit(nd, v, p, q)) THEN Bad
  ELSE LET fv == Fit(nd, v, p, q)
           F == [i \in Nat, j \in Nat |-> IF i <= p /\ j <= q THEN fv.e[i][j] ELSE m.e[i][j]]
       IN  Mat(m.r, m.c, F)

SetBottomRight(nd, m, p, q, v) ==
  IF IsBad(m) \/ p > m.r \/ q > m.c \/ IsBad(Fit(nd, v, p, q)) THEN Bad
  ELSE LET fv == Fit(nd, v, p, q)
           F == [i \in Nat, j \in Nat |-> IF i > m.r - p /\ j > m.c - q
                        THEN fv.e[i - (m.r - p)][j - (m.c - q)] ELSE m.e[i][j]]
       IN  Mat(m.r, m.c, F)

\* m.inverse(): asserts a square matrix; 1/0 is not finite.  Sizes above
\* 2 x 2 are outside the model.
inverse(m) ==
  IF IsBad(m) \/ m.r # m.c THEN Bad
  ELSE IF m.r = 0 THEN m
  ELSE IF m.r = 1 THEN Scalar1(Inv(m.e[1][1]))
  ELSE IF m.r = 2
    THEN LET det == Sub(Mul(m.e[1][1], m.e[2][2]), Mul(m.e[1][2], m.e[2][1]))
             F == [i \in Nat, j \in Nat |-> IF i = j THEN Div(m.e[3 - i][3 - j], det)
                        ELSE Div(Neg(m.e[i][j]), det)]
         IN  Mat(2, 2, F)
  ELSE LET F == [i \in Nat, j \in Nat |-> OutOfField] IN Mat(m.r, m.c, F)

(***************************************************************************)
(* Eigen::LLT, in place and unblocked (the sizes here are below its block  *)
(* size): column k-1 of the factor is written at step k, and a pivot       *)
(* x <= 0 ends the factorization there with info() = NumericalIssue,       *)
(* leaving the rest of the matrix as it was.  Only the lower triangle is   *)
(* read.                                                                   *)
(***************************************************************************)
RECURSIVE SumProd(_, _, _, _)
\* the sum over j < k of mat(a, j) * mat(b, j)
SumProd(e, a, b, k) ==
  IF k <= 1 THEN Zero ELSE Add(SumProd(e, a, b, k - 1), Mul(e[a][k - 1], e[b][k - 1]))

RECURSIVE llt_inplace(_, _)
llt_inplace(mat, k) ==
  IF k > mat.r THEN [m |-> mat, info |-> "Success"]
  ELSE LET x  == Sub(mat.e[k][k], SumProd(mat.e, k, k, k))
           sx == Sqrt(x)
           F == [i \in Nat, j \in Nat |->
                   IF j # k \/ i < k THEN mat.e[i][j]
                   ELSE IF i = k THEN sx
                   ELSE Div(Sub(mat.e[i][k], SumProd(mat.e, i, k, k)), sx)]
       IN  IF LeqZero(x) THEN [m |-> mat, info |-> "NumericalIssue"]
           ELSE llt_inplace(Mat(mat.r, mat.c, F), k + 1)

\* Eigen::LLT<MatrixXt> llt(a): asserts a square matrix
LLT(a) ==
  IF IsBad(a) \/ a.r # a.c THEN [m |-> Bad, info |-> "InvalidInput"] ELSE llt_inplace(a, 1)

\* llt.matrixL(): the lower triangle of the factored matrix
matrixL(llt) ==
  IF IsBad(llt.m) THEN Bad
  ELSE LET F == [i \in Nat, j \in Nat |-> IF j > i THEN Zero ELSE llt.m.e[i][j]] IN Mat(llt.m.r, llt.m.c, F)

(***************************************************************************)
(* computeCubaturePoints(mean, cov, cubature_points)                       *)
(***************************************************************************)
RECURSIVE PointRows(_, _, _, _, _, _)
\* the loop of lines 211-214, from index i (from 1) on
PointRows(nd, m, l, pts, i, n) ==
  IF i > n THEN pts
  ELSE PointRows(nd, m, l,
                 SetRow(nd, SetRow(nd, pts, i, MAdd(nd, m, col(l, i))),
                        n + i, MSub(nd, m, col(l, i))),
                 i + 1, n)

\* computeCubaturePoints with l = P_chol, the sqrt(n) of line 209 left out
computeCubaturePoints_unscaled(nd, m, c, pts) ==
  LET n      == m.r
      P_chol == matrixL(LLT(c))
  IN  IF IsBad(m) \/ IsBad(c) THEN Bad
      ELSE IF ~nd /\ ~(c.r = n /\ c.c = n) THEN Bad
      ELSE PointRows(nd, m, P_chol, pts, 1, n)

\* the points written into the buffer pts; Bad when an assertion fails
computeCubaturePoints(nd, m, c, pts) ==
  LET n      == m.r
      P_chol == matrixL(LLT(c))
      l      == Scale(Sqrt(Num(n)), P_chol)
  IN  IF IsBad(m) \/ IsBad(c) THEN Bad
      ELSE IF ~nd /\ ~(c.r = n /\ c.c = n) THEN Bad
      ELSE PointRows(nd, m, l, pts, 1, n)

(***************************************************************************)
(* ensurePositiveFinite(cov): returns at line 222, before any work         *)
(***************************************************************************)
ensurePositiveFinite(c) == c

(***************************************************************************)
(* The system model: f(x, u) = A*x + B*u and h(x) = C*x, supplied by the   *)
(* caller (the System template parameter)                                  *)
(***************************************************************************)
f(nd, sys, x, u) == MAdd(nd, MMul(sys.A, x), MMul(sys.B, u))

h(sys, x) == MMul(sys.C, x)

(***************************************************************************)
(* The filter object                                                       *)
(***************************************************************************)
VARIABLES
  N, M, K, S,          \* the dimensions fixed by the constructor
  mean, cov,           \* the belief
  system,
  process_noise,       \* Q
  measurement_noise,   \* R
  weights, ext_weights,
  kalman_gain,
  NDEBUG,              \* whether the build compiles eigen_assert and assert out
  status,              \* "ok"; "aborted" after a failed assertion; "undefined"
                       \* after an operation NDEBUG let through on operands
                       \* that do not fit
  calls,               \* calls made since construction
  last                 \* the most recent call: its arguments, the state it
                       \* started from, and the locals and buffers it computed

vars == <<N, M, K, S, mean, cov, system, process_noise, measurement_noise,
          weights, ext_weights, kalman_gain, NDEBUG, status, calls, last>>

\* the calls a run makes after construction
MaxCalls == 2

\* the weights of lines 58-60 and 63-65
Weights(s) == LET F == [i \in Nat, j \in Nat |-> Div(One, Num(s))] IN Mat(s, 1, F)

ExtWeights(n, k) == LET F == [i \in Nat, j \in Nat |-> Mul(Div(One, Num(2)), Num(n + k))] IN Mat(2 * (n + k), 1, F)

(***************************************************************************)
(* predict(control), lines 72-99                                           *)
(***************************************************************************)
RECURSIVE Propagate(_, _, _, _, _, _)
\* lines 76-78, from index i on
Propagate(nd, sys, pts, control, i, s) ==
  IF i > s THEN pts
  ELSE Propagate(nd, sys, SetRow(nd, pts, i, f(nd, sys, AsColumn(row(pts, i)), control)),
                 control, i + 1, s)

RECURSIVE WeightedRowSum(_, _, _, _, _, _)
\* acc += w[i] * pts.row(i) for the indices i..s (lines 88-90, 125-127)
WeightedRowSum(nd, acc, w, pts, i, s) ==
  IF i > s THEN acc
  ELSE IF IsBad(w) \/ i > w.r THEN Bad
  ELSE WeightedRowSum(nd, AddAssign(nd, acc, AsColumn(Scale(w.e[i][1], row(pts, i)))),
                      w, pts, i + 1, s)

RECURSIVE WeightedOuterSum(_, _, _, _, _, _, _)
\* acc += w[i] * a.row(i).transpose() * b.row(i) for the indices i..s
\* (lines 91-92, 129-130, 137-138)
WeightedOuterSum(nd, acc, w, a, b, i, s) ==
  IF i > s THEN acc
  ELSE IF IsBad(w) \/ i > w.r THEN Bad
  ELSE WeightedOuterSum(nd, AddAssign(nd, acc, Scale(w.e[i][1], MMul(transpose(row(a, i)), row(b, i)))),
                        w, a, b, i + 1, s)

\* lines 86, 88-90
PredictedMean(nd, m, w, pts, s) == WeightedRowSum(nd, ZeroMat(m.r, 1), w, pts, 1, s)

\* lines 87, 91-94
PredictedCov(nd, c, w, pts, s, mean_pred, Q) ==
  AddAssign(nd,
    SubAssign(nd, WeightedOuterSum(nd, ZeroMat(c.r, c.c), w, pts, pts, 1, s),
              MMul(transpose(mean_pred), mean_pred)),
    Q)

(***************************************************************************)
(* correct(measurement), lines 105-149                                     *)
(***************************************************************************)
\* lines 107, 109
ExtMeanPred(nd, n, k, m) == SetTopLeft(nd, ZeroMat(n + k, 1), n, 1, m)

\* lines 108, 110-111
ExtCovPred(nd, n, k, c, R) ==
  SetBottomRight(nd, SetTopLeft(nd, ZeroMat(n + k, n + k), n, n, c), k, k, R)

RECURSIVE ExpectedMeasurements(_, _, _, _, _, _, _)
\* lines 119-122, from index i on: row i is h(state part) plus the noise part
ExpectedMeasurements(nd, sys, em, pts, n, k, i) ==
  IF IsBad(pts) \/ IsBad(em) THEN Bad
  ELSE IF i > pts.r THEN em
  ELSE LET p     == transpose(row(pts, i))
           hx    == SetRow(nd, em, i, h(sys, topLeftCorner(p, n, 1)))
           noisy == AddAssign(nd, AsColumn(row(hx, i)), bottomRightCorner(p, k, 1))
       IN  ExpectedMeasurements(nd, sys, SetRow(nd, hx, i, noisy), pts, n, k, i + 1)

\* lines 124-127
ExpectedMean(nd, k, w, em) ==
  IF IsBad(em) THEN Bad ELSE WeightedRowSum(nd, ZeroMat(k, 1), w, em, 1, em.r)

\* lines 128-133; mean_pred is the vector line 132 reads under that name
ExpectedCov(nd, k, w, em, emm, mean_pred, R) ==
  IF IsBad(em) THEN Bad
  ELSE AddAssign(nd,
         SubAssign(nd, WeightedOuterSum(nd, ZeroMat(k, k), w, em, em, 1, em.r),
                   MMul(transpose(emm), mean_pred)),
         R)

\* lines 136-139: the loop runs over the first S = 2N rows
CrossCov(nd, n, k, s, w, pts, em, ext_mean_pred, emm) ==
  SubAssign(nd, WeightedOuterSum(nd, ZeroMat(n, k), w, pts, em, 1, s),
            MMul(ext_mean_pred, emm))

\* line 141
KalmanGain(cross_cov) == MMul(cross_cov, inverse(cross_cov))

\* line 144 with the measurement in the place of the innovation
UpdatedMean_measurement(nd, ext_mean_pred, gain, measurement, emm) ==
  MAdd(nd, ext_mean_pred, MMul(gain, measurement))

\* line 144
UpdatedMean(nd, ext_mean_pred, gain, measurement, emm) ==
  MAdd(nd, ext_mean_pred, MMul(gain, MSub(nd, measurement, emm)))

\* line 145
UpdatedCov(nd, ext_cov_pred, gain, emc) ==
  MSub(nd, ext_cov_pred, MMul(MMul(gain, emc), transpose(gain)))

\* Line 132 reads mean_pred, which correct does not declare and the class
\* has no member of that name.  The readings are the vectors in scope that
\* the name can stand for: the filter's (predicted) mean, the augmented
\* ext_mean_pred, and expected_measurement_mean.
MeanPredReadings == {"mean", "ext_mean_pred", "expected_measurement_mean"}

\* the vector line 132 reads under one reading
MeanPred(reading, m, ext_mean_pred, emm) ==
  CASE reading = "mean" -> m
    [] reading = "ext_mean_pred" -> ext_mean_pred
    [] OTHER -> emm

(***************************************************************************)
(* The calls a caller can make, and their arguments                        *)
(***************************************************************************)
\* the state and input dimensions <<N, M, K>> a filter is built with
Dims == {<<1, 1, 1>>, <<2, 1, 1>>, <<1, 1, 0>>}

Sym2(a, b, c) == [r |-> 2, c |-> 2, e |-> <<<<Num(a), Num(b)>>, <<Num(b), Num(c)>>>>]

\* the linear systems f(x, u) = A*x + B*u, h(x) = C*x of each dimension
Systems(d) ==
  IF d = <<1, 1, 1>>
    THEN {[A |-> Scalar1(Num(1)), B |-> Scalar1(Num(1)), C |-> Scalar1(Num(1))],
          [A |-> Scalar1(Num(2)), B |-> Scalar1(Num(1)), C |-> Scalar1(Num(2))]}
  ELSE IF d = <<2, 1, 1>>
    THEN {[A |-> [r |-> 2, c |-> 2, e |-> <<<<Num(1), Num(1)>>, <<Num(0), Num(1)>>>>],
           B |-> Vec(<<Num(0), Num(1)>>),
           C |-> [r |-> 1, c |-> 2, e |-> <<<<Num(1), Num(0)>>>>]]}
  ELSE {[A |-> Scalar1(Num(1)), B |-> Scalar1(Num(1)), C |-> ZeroMat(0, 1)]}

\* vectors and matrices a caller passes; nothing ties their sizes to N, K
MeanArgs == {Vec(<<Num(0)>>), Vec(<<Num(1)>>), Vec(<<Num(1), Num(2)>>)}

CovArgs == {Scalar1(Num(1)), Scalar1(Num(2)), Scalar1(Num(-1)), Sym2(2, 1, 2)}

ProcessNoiseArgs == {Scalar1(Num(0)), Scalar1(Num(1)), ZeroMat(2, 2)}

MeasurementNoiseArgs == {Scalar1(Num(1)), Scalar1(Num(2)), ZeroMat(0, 0)}

Controls == {Vec(<<Num(0)>>), Vec(<<Num(1)>>)}

Measurements == {Vec(<<Num(0)>>), Vec(<<Num(4)>>)}

\* what a call that ran into undefined behaviour may leave in a coefficient
Garbage == {Zero, NaN}

Fill(r, c, x) == LET F == [i \in Nat, j \in Nat |-> x] IN Mat(r, c, F)

None == ZeroMat(0, 0)

\* the record of a call that computed nothing
NoCall(op, arg) ==
  [op |-> op, arg |-> arg, reading |-> "", pre_mean |-> mean, pre_cov |-> cov,
   llt_arg |-> None, llt_info |-> "", generated |-> None, points |-> None,
   ext_mean_pred |-> None, expected_measurements |-> None,
   expected_measurement_mean |-> None, expected_measurement_cov |-> None,
   cross_cov |-> None, ext_cov |-> None]

\* no coefficient needed a square root outside the field
InField(m) == IsBad(m) \/ \A x \in Coeffs(m) : x[5] >= 0

Fits(m, r, c) == m.r = r /\ m.c = c

\* the initial mean and covariance a filter of dimensions d is built with
InitialMeans(d) ==
  IF d = <<1, 1, 1>> THEN {Vec(<<Num(0)>>), Vec(<<Num(1)>>)}
  ELSE IF d = <<2, 1, 1>> THEN {Vec(<<Num(1), Num(2)>>)}
  ELSE {Vec(<<Num(1)>>)}

InitialCovs(d) ==
  IF d = <<1, 1, 1>> THEN {Scalar1(Num(1)), Scalar1(Num(2))}
  ELSE IF d = <<2, 1, 1>> THEN {Sym2(2, 1, 2)}
  ELSE {Scalar1(Num(1))}

\* the constructor, lines 36-66: the members are copied from the arguments
\* and the weights filled; the arguments here have the declared sizes, with
\* Q the identity and R twice the identity
Init ==
  \E d \in Dims : \E sys \in Systems(d) :
    /\ N = d[1] /\ M = d[2] /\ K = d[3] /\ S = 2 * d[1]
    /\ system = sys
    /\ mean \in InitialMeans(d)
    /\ cov \in InitialCovs(d)
    /\ process_noise = Diag([i \in 1..d[1] |-> Num(1)])
    /\ measurement_noise = Diag([i \in 1..d[3] |-> Num(2)])
    /\ weights = Weights(2 * d[1])
    /\ ext_weights = ExtWeights(d[1], d[3])
    /\ kalman_gain = None
    /\ NDEBUG \in BOOLEAN
    /\ status = "ok"
    /\ calls = 0
    /\ last = [op |-> "construct", arg |-> None, reading |-> "", pre_mean |-> None,
               pre_cov |-> None, llt_arg |-> None, llt_info |-> "", generated |-> None,
               points |-> None, ext_mean_pred |-> None, expected_measurements |-> None,
               expected_measurement_mean |-> None, expected_measurement_cov |-> None,
               cross_cov |-> None, ext_cov |-> None]

\* How a call that computed (mean_new, cov_new, gain_new) ends.  When an
\* operation did not fit, a build with assertions aborts the process, and
\* under NDEBUG the behaviour is undefined.
Finish(mean_new, cov_new, gain_new) ==
  IF ~IsBad(mean_new) /\ ~IsBad(cov_new) /\ ~IsBad(gain_new)
    THEN /\ mean' = mean_new /\ cov' = cov_new /\ kalman_gain' = gain_new
         /\ status' = "ok"
  ELSE IF ~NDEBUG
    THEN /\ status' = "aborted"
         /\ UNCHANGED <<mean, cov, kalman_gain>>
  ELSE /\ status' = "undefined"
       /\ \E g \in Garbage :
            /\ mean' = Fill(N, 1, g) /\ cov' = Fill(N, N, g)
            /\ kalman_gain' = IF IsBad(gain_new) THEN Fill(N, K, g) ELSE gain_new

\* predict(control): each local of the call is bound to its one value, in
\* the order the code computes them
predict(control) ==
  /\ status = "ok"
  /\ calls < MaxCalls
  /\ \E c0 \in {ensurePositiveFinite(cov)} :
     \E generated \in {computeCubaturePoints(NDEBUG, mean, c0, ZeroMat(S, N))} :
     \E points \in {Propagate(NDEBUG, system, generated, control, 1, S)} :
     \E mean_pred \in {PredictedMean(NDEBUG, mean, weights, points, S)} :
     \E cov_pred \in {PredictedCov(NDEBUG, c0, weights, points, S, mean_pred,
                                   process_noise)} :
       /\ InField(generated) /\ InField(points)
       /\ InField(mean_pred) /\ InField(cov_pred)
       /\ Finish(mean_pred, cov_pred, kalman_gain)
       /\ last' = [NoCall("predict", control) EXCEPT
                     !.llt_arg = c0, !.llt_info = LLT(c0).info,
                     !.generated = generated, !.points = points]
  /\ calls' = calls + 1
  /\ UNCHANGED <<N, M, K, S, system, process_noise, measurement_noise, weights,
                 ext_weights, NDEBUG>>

\* correct(measurement), under one reading of line 132
correct(measurement) ==
  /\ status = "ok"
  /\ calls < MaxCalls
  /\ \E reading \in MeanPredReadings :
     \E ext_mean_pred \in {ExtMeanPred(NDEBUG, N, K, mean)} :
     \E ext_cov_pred \in {ensurePositiveFinite(ExtCovPred(NDEBUG, N, K, cov,
                                                         measurement_noise))} :
     \E generated \in {computeCubaturePoints(NDEBUG, ext_mean_pred, ext_cov_pred,
                                             ZeroMat(2 * (N + K), N + K))} :
     \E em \in {ExpectedMeasurements(NDEBUG, system, ZeroMat(2 * (N + K), K),
                                     generated, N, K, 1)} :
     \E emm \in {ExpectedMean(NDEBUG, K, ext_weights, em)} :
     \E emc \in {ExpectedCov(NDEBUG, K, ext_weights, em, emm,
                             MeanPred(reading, mean, ext_mean_pred, emm),
                             measurement_noise)} :
     \E cross_cov \in {CrossCov(NDEBUG, N, K, S, ext_weights, generated, em,
                                ext_mean_pred, emm)} :
     \E gain \in {KalmanGain(cross_cov)} :
     \E ext_mean \in {UpdatedMean(NDEBUG, ext_mean_pred, gain, measurement, emm)} :
     \E ext_cov \in {UpdatedCov(NDEBUG, ext_cov_pred, gain, emc)} :
     \E mean_new \in {topLeftCorner(ext_mean, N, 1)} :
     \E cov_new \in {topLeftCorner(ext_cov, N, N)} :
       /\ InField(generated) /\ InField(em) /\ InField(emc) /\ InField(cross_cov)
       /\ InField(gain) /\ InField(mean_new) /\ InField(cov_new)
       /\ Finish(mean_new, cov_new, gain)
       /\ last' = [NoCall("correct", measurement) EXCEPT
                     !.reading = reading,
                     !.llt_arg = ext_cov_pred, !.llt_info = LLT(ext_cov_pred).info,
                     !.generated = generated, !.points = generated,
                     !.ext_mean_pred = ext_mean_pred,
                     !.expected_measurements = em,
                     !.expected_measurement_mean = emm,
                     !.expected_measurement_cov = emc,
                     !.cross_cov = cross_cov, !.ext_cov = ext_cov]
  /\ calls' = calls + 1
  /\ UNCHANGED <<N, M, K, S, system, process_noise, measurement_noise, weights,
                 ext_weights, NDEBUG>>

\* the setters, lines 164-168: plain assignments, which resize the member
setMean(m) ==
  /\ status = "ok"
  /\ calls < MaxCalls
  /\ calls' = calls + 1
  /\ mean' = m
  /\ last' = NoCall("setMean", m)
  /\ UNCHANGED <<N, M, K, S, cov, system, process_noise, measurement_noise, weights,
                 ext_weights, kalman_gain, NDEBUG, status>>

setCov(s) ==
  /\ status = "ok"
  /\ calls < MaxCalls
  /\ calls' = calls + 1
  /\ cov' = s
  /\ last' = NoCall("setCov", s)
  /\ UNCHANGED <<N, M, K, S, mean, system, process_noise, measurement_noise, weights,
                 ext_weights, kalman_gain, NDEBUG, status>>

setProcessNoiseCov(p) ==
  /\ status = "ok"
  /\ calls < MaxCalls
  /\ calls' = calls + 1
  /\ process_noise' = p
  /\ last' = NoCall("setProcessNoiseCov", p)
  /\ UNCHANGED <<N, M, K, S, mean, cov, system, measurement_noise, weights,
                 ext_weights, kalman_gain, NDEBUG, status>>

setMeasurementNoiseCov(m) ==
  /\ status = "ok"
  /\ calls < MaxCalls
  /\ calls' = calls + 1
  /\ measurement_noise' = m
  /\ last' = NoCall("setMeasurementNoiseCov", m)
  /\ UNCHANGED <<N, M, K, S, mean, cov, system, process_noise, weights,
                 ext_weights, kalman_gain, NDEBUG, status>>

Next ==
  \/ \E u \in Controls : predict(u)
  \/ \E z \in Measurements : correct(z)
  \/ \E m \in MeanArgs : setMean(m)
  \/ \E s \in CovArgs : setCov(s)
  \/ \E p \in ProcessNoiseArgs : setProcessNoiseCov(p)
  \/ \E m \in MeasurementNoiseArgs : setMeasurementNoiseCov(m)

Spec == Init /\ [][Next]_vars

(***************************************************************************)
(* Properties.  The record last holds the arguments, the state before and  *)
(* the locals of the most recent call, so each property of a call is a     *)
(* predicate of the state the call leaves.                                 *)
(***************************************************************************)
\* every coefficient of m is a finite number
Finite(m) == ~IsBad(m) /\ \A x \in Coeffs(m) : IsNum(x)

Symmetric(m) == m.r = m.c /\ \A i \in 1..m.r : \A j \in 1..m.c : m.e[i][j] = m.e[j][i]

\* a rational x > 0
Positive(x) == IsRational(x) /\ x[1] > 0

RECURSIVE SumColumn(_, _)
\* the sum of the first i coefficients of the vector v
SumColumn(v, i) == IF i = 0 THEN Zero ELSE Add(SumColumn(v, i - 1), v.e[i][1])

\* the k-th leading principal minor of a, k <= 3
Minor(a, k) ==
  CASE k = 1 -> a.e[1][1]
    [] k = 2 -> Sub(Mul(a.e[1][1], a.e[2][2]), Mul(a.e[1][2], a.e[2][1]))
    [] k = 3 ->
         Add(Sub(Mul(a.e[1][1], Sub(Mul(a.e[2][2], a.e[3][3]), Mul(a.e[2][3], a.e[3][2]))),
                 Mul(a.e[1][2], Sub(Mul(a.e[2][1], a.e[3][3]), Mul(a.e[2][3], a.e[3][1])))),
             Mul(a.e[1][3], Sub(Mul(a.e[2][1], a.e[3][2]), Mul(a.e[2][2], a.e[3][1]))))

\* Sylvester's criterion, for the sizes up to 3 x 3 of the model
PositiveDefinite(a) == a.r = a.c /\ a.r <= 3 /\ \A k \in 1..a.r : Positive(Minor(a, k))

\* the last call was op and it returned: no assertion failed, and nothing
\* undefined was executed
Returned(op) == last.op = op /\ status = "ok"

\* the last call started from a filter whose members had the sizes the
\* constructor was given (predict and correct leave Q and R alone)
WellSized ==
  /\ Fits(last.pre_mean, N, 1) /\ Fits(last.pre_cov, N, N)
  /\ Fits(process_noise, N, N) /\ Fits(measurement_noise, K, K)

\* C1: the extended-weights vector has 2(N+K) entries, every entry is
\* 1/(2(N+K)), and the entries sum to 1.
C1_ExtWeights ==
  /\ Fits(ext_weights, 2 * (N + K), 1)
  /\ \A i \in 1..ext_weights.r : ext_weights.e[i][1] = Rat(1, 2 * (N + K))
  /\ SumColumn(ext_weights, ext_weights.r) = One

\* C2: after a correct call that returned, the stored Kalman gain is N x K and
\* is the cross-covariance times the inverse of the expected-measurement
\* covariance.
C2_GainInvertsMeasurementCov ==
  (Returned("correct") /\ WellSized) =>
    /\ Fits(kalman_gain, N, K)
    /\ kalman_gain = MMul(last.cross_cov, inverse(last.expected_measurement_cov))

\* C3: for N = K = 1, h(x) = x, predicted mean m, predicted covariance P > 0
\* and measurement noise R > 0, correct(z) leaves gain = P/(P+R),
\* mean = m + gain*(z - m) and cov = P*(1 - gain).
C3_ScalarCorrect ==
  (/\ Returned("correct") /\ WellSized /\ N = 1 /\ K = 1
   /\ system.C = Scalar1(One)
   /\ Positive(last.pre_cov.e[1][1]) /\ Positive(measurement_noise.e[1][1])) =>
    LET m    == last.pre_mean.e[1][1]
        P    == last.pre_cov.e[1][1]
        R    == measurement_noise.e[1][1]
        z    == last.arg.e[1][1]
        gain == Div(P, Add(P, R))
    IN  /\ kalman_gain = Scalar1(gain)
        /\ mean = Scalar1(Add(m, Mul(gain, Sub(z, m))))
        /\ cov = Scalar1(Mul(P, Sub(One, gain)))

\* C4: with f(x, u) = A*x + B*u, one predict(u) from a mean and a symmetric
\* positive definite covariance returns and leaves mean = A*mean + B*u and
\* cov = A*cov*A^T + Q (Q = 0 included).
C4_LinearPredict ==
  (/\ last.op = "predict" /\ WellSized
   /\ Symmetric(last.pre_cov) /\ PositiveDefinite(last.pre_cov)) =>
    /\ status = "ok"
    /\ mean = MAdd(FALSE, MMul(system.A, last.pre_mean), MMul(system.B, last.arg))
    /\ cov = MAdd(FALSE, MMul(MMul(system.A, last.pre_cov), transpose(system.A)),
                  process_noise)

\* correct returned a finite gain on a measurement equal to the expected
\* measurement mean it computed
ZeroInnovation ==
  /\ Returned("correct") /\ WellSized /\ Finite(kalman_gain)
  /\ last.arg = last.expected_measurement_mean

\* C5: when correct succeeds (called on a filter whose members have the
\* constructed sizes, it returns, with a finite gain) on a measurement equal to
\* its expected measurement mean, the mean after the call is the mean before
\* it, and the covariance is the top-left N x N block of
\* augmented covariance - gain * expected-measurement covariance * gain^T.
C5_ZeroInnovation ==
  ZeroInnovation =>
    /\ mean = last.pre_mean
    /\ cov = topLeftCorner(
               MSub(NDEBUG, last.llt_arg,
                    MMul(MMul(kalman_gain, last.expected_measurement_cov),
                         transpose(kalman_gain))),
               N, N)

\* a zero-innovation correct on the measurement 4, from the mean 1
C5_Reached == ZeroInnovation /\ last.arg = Vec(<<Num(4)>>) /\ mean = Vec(<<Num(1)>>)

\* C6: when the Cholesky factorization of the covariance handed to the point
\* generator fails, predict and correct end in a failure and the mean and the
\* covariance stay what they were.
C6_NonPositiveDefiniteFails ==
  (/\ last.op \in {"predict", "correct"} /\ WellSized
   /\ last.llt_info = "NumericalIssue") =>
    /\ status # "ok"
    /\ mean = last.pre_mean
    /\ cov = last.pre_cov

\* C7: after any sequence of calls the mean has length N, cov is N x N, Q is
\* N x N and R is K x K.
C7_SizesFixed ==
  /\ Fits(mean, N, 1) /\ Fits(cov, N, N)
  /\ Fits(process_noise, N, N) /\ Fits(measurement_noise, K, K)

\* the mean the last call handed to computeCubaturePoints
GeneratorMean == IF last.op = "predict" THEN last.pre_mean ELSE last.ext_mean_pred

\* the last call ran computeCubaturePoints on a mean of dimension n and a
\* symmetric positive definite n x n covariance, with its 2n x n buffer
GeneratorCase ==
  /\ last.op \in {"predict", "correct"}
  /\ Finite(GeneratorMean) /\ ~IsBad(last.llt_arg)
  /\ Fits(GeneratorMean, IF last.op = "predict" THEN N ELSE N + K, 1)
  /\ Fits(last.llt_arg, GeneratorMean.r, GeneratorMean.r)
  /\ Symmetric(last.llt_arg) /\ PositiveDefinite(last.llt_arg)

\* C8: on a finite mean of dimension n, a symmetric positive definite n x n
\* covariance and a 2n x n buffer, computeCubaturePoints writes the 2n rows
\* mean + sqrt(n)*col_i(L) and mean - sqrt(n)*col_i(L) with L*L^T = cov; with
\* the weights 1/(2n) their weighted mean is mean and their weighted
\* covariance is cov.
C8_CubaturePoints ==
  GeneratorCase =>
    LET n   == GeneratorMean.r
        L   == matrixL(LLT(last.llt_arg))
        pts == last.generated
    IN  /\ last.llt_info = "Success"
        /\ MMul(L, transpose(L)) = last.llt_arg
        /\ Fits(pts, 2 * n, n)
        /\ \A i \in 1..n : \A j \in 1..n :
             /\ pts.e[i][j] = Add(GeneratorMean.e[j][1], Mul(Sqrt(Num(n)), L.e[j][i]))
             /\ pts.e[n + i][j] = Sub(GeneratorMean.e[j][1], Mul(Sqrt(Num(n)), L.e[j][i]))
        /\ WeightedRowSum(FALSE, ZeroMat(n, 1), Weights(2 * n), pts, 1, 2 * n)
             = GeneratorMean
        /\ SubAssign(FALSE,
                     WeightedOuterSum(FALSE, ZeroMat(n, n), Weights(2 * n), pts, pts,
                                      1, 2 * n),
                     MMul(GeneratorMean, transpose(GeneratorMean)))
             = last.llt_arg

\* the six points of a three-dimensional augmented state
C8_Reached == GeneratorCase /\ last.op = "correct" /\ GeneratorMean.r = 3

\* C9: the matrix predict and correct pass to the Cholesky factorization,
\* after ensurePositiveFinite, is positive definite.
C9_FactoredCovPositiveDefinite ==
  (last.op \in {"predict", "correct"} /\ WellSized) => PositiveDefinite(last.llt_arg)

\* C10: the cross-covariance correct computes is the sum over all 2(N+K)
\* augmented points of ext_weight[i] * point[i] * expected_measurement[i]^T,
\* less the product of the augmented mean and the expected mean.
C10_CrossCovOverAllPoints ==
  (Returned("correct") /\ WellSized) =>
    last.cross_cov = CrossCov(NDEBUG, N, K, 2 * (N + K), ext_weights, last.generated,
                              last.expected_measurements, last.ext_mean_pred,
                              last.expected_measurement_mean)

====
